---- MODULE Spec2Model ----
(***************************************************************************)
(* convr: conversion of a measurement (quantity + unit token) between the   *)
(* units of one family.  The model covers core/src/prelude.rs (Family,      *)
(* Unit, Value, Value::from_str), core/src/length.rs and temperature.rs     *)
(* (the two built-in families) and core/src/lib.rs (the lazily built        *)
(* FAMILIES registry, convert and units).                                   *)
(*                                                                          *)
(* Strings are sequences of characters; a character is a one-letter string, *)
(* except "i_dotless", which stands for U+0131 (LATIN SMALL LETTER DOTLESS  *)
(* I).  An f64 is modelled by the exact rational <<numerator, denominator>> *)
(* in lowest terms: the model decides what the arithmetic computes, not how *)
(* IEEE-754 rounds it.                                                      *)
(***************************************************************************)
EXTENDS Integers, Sequences, FiniteSets, TLC

VARIABLES
    chain,      \* conversions: chain[1] is the caller's Value, chain[k+1] the Value call k returned
    targets,    \* conversions: targets[k] is the target token of call k
    result,     \* conversions: what the last call to convert returned (or <<>> before any call)
    input,      \* parser: the text handed to Value::from_str
    parsed,     \* parser: what from_str returned (or <<>> before the call)
    once,       \* registry: state of the lazy cell behind FAMILIES
    FAMILIES,   \* registry: contents of the lazy cell
    builds,     \* registry: how many times the initializer expression has run
    tpc,        \* threads: position of each thread
    tcall,      \* threads: the call each thread is running
    tlocal,     \* threads: the Vec a thread is building inside the initializer
    tview,      \* threads: the registry a thread's call read through FAMILIES
    tret        \* threads: what each thread's call returned

convVars == <<chain, targets, result>>
parseVars == <<input, parsed>>
regVars == <<once, FAMILIES, builds, tpc, tcall, tlocal, tview, tret>>
vars == <<chain, targets, result, input, parsed, once, FAMILIES, builds,
          tpc, tcall, tlocal, tview, tret>>

(***************************************************************************)
(* Bounds of the model.                                                     *)
(***************************************************************************)
MaxHops == 2        \* conversions chained on one Value
MaxLen == 4         \* characters of a parser input
NumThreads == 2     \* threads calling into the library concurrently

(***************************************************************************)
(* Characters and case mapping (str::to_lowercase / str::to_uppercase).     *)
(***************************************************************************)
UpperChars == <<"A","B","C","D","E","F","G","H","I","J","K","L","M",
                "N","O","P","Q","R","S","T","U","V","W","X","Y","Z">>
LowerChars == <<"a","b","c","d","e","f","g","h","i","j","k","l","m",
                "n","o","p","q","r","s","t","u","v","w","x","y","z">>

char_to_lowercase(c) ==
    IF \E i \in DOMAIN UpperChars : UpperChars[i] = c
    THEN LowerChars[CHOOSE i \in DOMAIN UpperChars : UpperChars[i] = c]
    ELSE c

\* U+0131 has no lower-case mapping (it is lower case) and upper-cases to "I".
char_to_uppercase(c) ==
    IF c = "i_dotless" THEN "I"
    ELSE IF \E i \in DOMAIN LowerChars : LowerChars[i] = c
    THEN UpperChars[CHOOSE i \in DOMAIN LowerChars : LowerChars[i] = c]
    ELSE c

to_lowercase(s) == [i \in DOMAIN s |-> char_to_lowercase(s[i])]
to_uppercase(s) == [i \in DOMAIN s |-> char_to_uppercase(s[i])]

(***************************************************************************)
(* f64 arithmetic, as exact rationals in lowest terms.                      *)
(***************************************************************************)
Abs(n) == IF n < 0 THEN -n ELSE n

RECURSIVE Gcd(_, _)
Gcd(a, b) == IF b = 0 THEN a ELSE Gcd(b, a % b)

Norm(n, d) ==
    LET g == Gcd(Abs(n), Abs(d))
        s == IF d < 0 THEN -1 ELSE 1
    IN  <<s * (n \div g), s * (d \div g)>>

F64(n) == <<n, 1>>
Dec(n, d) == Norm(n, d)          \* a decimal literal n/d, d a power of ten

f64_add(a, b) ==
    LET g == Gcd(a[2], b[2])
    IN  Norm(a[1] * (b[2] \div g) + b[1] * (a[2] \div g), (a[2] \div g) * b[2])
f64_neg(a) == <<-a[1], a[2]>>
f64_sub(a, b) == f64_add(a, f64_neg(b))
f64_mul(a, b) ==
    LET g1 == Gcd(Abs(a[1]), b[2])
        g2 == Gcd(Abs(b[1]), a[2])
    IN  Norm((a[1] \div g1) * (b[1] \div g2), (a[2] \div g2) * (b[2] \div g1))
f64_div(a, b) == f64_mul(a, Norm(b[2], b[1]))

(***************************************************************************)
(* prelude.rs: Unit, Value, Result.                                         *)
(***************************************************************************)
Unit_new(names, sym, ratio, difference) ==
    [names |-> [i \in DOMAIN names |-> to_lowercase(names[i])],
     symbol |-> to_lowercase(sym),
     ratio |-> ratio,
     difference |-> difference]

Value_new(quantity, unit) == [quantity |-> quantity, unit |-> unit]

\* A Result: Ok carries one Value, Err one error and no Value; a panic
\* unwinds out of the call and carries neither.
Ok(v) == [tag |-> "Ok", value |-> <<v>>, err |-> <<>>]
Err(e) == [tag |-> "Err", value |-> <<>>, err |-> <<e>>]
Panic == [tag |-> "Panic", value |-> <<>>, err |-> <<>>]

UnknownUnit(unit) == <<"unknown unit", unit>>
FailedToConvert(qty, from, to) == <<"failed to convert", qty, from, to>>

(***************************************************************************)
(* length.rs and temperature.rs: the built-in families.                     *)
(***************************************************************************)
length_family ==
    [id |-> "Lengths",
     base_unit |-> <<"M">>,
     units |-> <<
        Unit_new(<< <<"m","e","t","e","r">>, <<"m","e","t","e","r","s">> >>,
                 <<"M">>, F64(1), F64(0)),
        Unit_new(<< <<"c","e","n","t","i","m","e","t","e","r">>,
                    <<"c","e","n","t","i","m","e","t","e","r","s">> >>,
                 <<"C","M">>, f64_div(F64(1), F64(100)), F64(0)),
        Unit_new(<< <<"m","i","l","l","i","m","e","t","e","r">>,
                    <<"m","i","l","l","i","m","e","t","e","r","s">> >>,
                 <<"M","M">>, f64_div(F64(1), F64(1000)), F64(0)),
        Unit_new(<< <<"k","i","l","o","m","e","t","e","r">>,
                    <<"k","i","l","o","m","e","t","e","r","s">> >>,
                 <<"K","M">>, F64(1000), F64(0)),
        Unit_new(<< <<"f","o","o","t">>, <<"f","e","e","t">> >>,
                 <<"f","t">>, Dec(3048, 10000), F64(0)),
        Unit_new(<< <<"i","n","c","h">>, <<"i","n","c","h","e","s">> >>,
                 <<"i","n">>, Dec(254, 10000), F64(0)),
        Unit_new(<< <<"y","a","r","d">>, <<"y","a","r","d","s">> >>,
                 <<"y","d">>, Dec(9144, 10000), F64(0)),
        Unit_new(<< <<"m","i","l","e">>, <<"m","i","l","e","s">> >>,
                 <<"m","i">>, Dec(1609344, 1000), F64(0)),
        Unit_new(<< <<"n","a","u","t","i","c","a","l"," ","m","i","l","e">>,
                    <<"n","a","u","t","i","c","a","l"," ","m","i","l","e","s">> >>,
                 <<"n","m","i">>, F64(1852), F64(0))
     >>]

temperature_family ==
    [id |-> "Temperature",
     base_unit |-> <<"K">>,
     units |-> <<
        Unit_new(<< <<"k","e","l","v","i","n">>, <<"k","e","l","v","i","n","s">> >>,
                 <<"K">>, F64(1), F64(0)),
        Unit_new(<< <<"c","e","l","s","i","u","s">> >>,
                 <<"C">>, F64(1), Dec(27315, 100)),
        Unit_new(<< <<"f","a","h","r","e","n","h","e","i","t">> >>,
                 <<"F">>, f64_div(F64(5), F64(9)), Dec(45967, 100)),
        Unit_new(<< <<"r","a","n","k","i","n","e">> >>,
                 <<"R">>, f64_div(F64(5), F64(9)), F64(0))
     >>]

\* lib.rs: the initializer expression of the lazy FAMILIES cell.
FamiliesInit == <<length_family, temperature_family>>

(***************************************************************************)
(* prelude.rs: Family.                                                      *)
(***************************************************************************)
Contains(seq, x) == \E i \in DOMAIN seq : seq[i] = x

\* find_unit without the lower-casing of the token.
find_unit_case_sensitive(fam, unit) ==
    LET hit(i) == Contains(fam.units[i].names, unit) \/ fam.units[i].symbol = unit
        hits == {i \in DOMAIN fam.units : hit(i)}
    IN  IF hits = {} THEN <<>>
        ELSE <<fam.units[CHOOSE i \in hits : \A j \in hits : i <= j]>>

\* Option<&Unit>: << >> or <<the first unit that matches>>.
find_unit(fam, unit) ==
    LET u == to_lowercase(unit)
        hit(i) == Contains(fam.units[i].names, u) \/ fam.units[i].symbol = u
        hits == {i \in DOMAIN fam.units : hit(i)}
    IN  IF hits = {} THEN <<>>
        ELSE <<fam.units[CHOOSE i \in hits : \A j \in hits : i <= j]>>

can_convert(fam, unit) == find_unit(fam, unit) # <<>>

\* to_base_unit with the offset added after the multiplication.
to_base_unit_offset_last(fam, v) ==
    LET u == find_unit(fam, v.unit)
    IN  IF u # <<>>
        THEN Ok(Value_new(f64_add(f64_mul(v.quantity, u[1].ratio), u[1].difference),
                          fam.base_unit))
        ELSE Err(UnknownUnit(v.unit))

to_base_unit(fam, v) ==
    LET u == find_unit(fam, v.unit)
    IN  IF u # <<>>
        THEN Ok(Value_new(f64_mul(f64_add(v.quantity, u[1].difference), u[1].ratio),
                          fam.base_unit))
        ELSE Err(UnknownUnit(v.unit))

\* to_dest_unit labelling the result with the unit's canonical symbol.
to_dest_unit_symbol(fam, base_qty, unit) ==
    LET c == find_unit(fam, unit)
    IN  IF c # <<>>
        THEN Ok(Value_new(f64_sub(f64_mul(base_qty, f64_div(F64(1), c[1].ratio)),
                                  c[1].difference),
                          c[1].symbol))
        ELSE Err(FailedToConvert(base_qty, fam.base_unit, unit))

\* to_dest_unit adding the offset instead of subtracting it.
to_dest_unit_plus(fam, base_qty, unit) ==
    LET c == find_unit(fam, unit)
    IN  IF c # <<>>
        THEN Ok(Value_new(f64_add(f64_mul(base_qty, f64_div(F64(1), c[1].ratio)),
                                  c[1].difference),
                          unit))
        ELSE Err(FailedToConvert(base_qty, fam.base_unit, unit))

to_dest_unit(fam, base_qty, unit) ==
    LET c == find_unit(fam, unit)
    IN  IF c # <<>>
        THEN Ok(Value_new(f64_sub(f64_mul(base_qty, f64_div(F64(1), c[1].ratio)),
                                  c[1].difference),
                          unit))
        ELSE Err(FailedToConvert(base_qty, fam.base_unit, unit))

Family_convert(fam, v, u) ==
    IF v.unit = u THEN Ok(v)
    ELSE LET base_val == IF v.unit # fam.base_unit THEN to_base_unit(fam, v) ELSE Ok(v)
         IN  IF base_val.tag # "Ok" THEN base_val
             ELSE to_dest_unit(fam, base_val.value[1].quantity, u)

(***************************************************************************)
(* lib.rs: convert and units, over the registry `families` the call reads.  *)
(***************************************************************************)
\* convert choosing the family by the target token instead of the source token.
convert_in_by_target(families, v, to_unit) ==
    LET owners == {i \in DOMAIN families : can_convert(families[i], to_unit)}
    IN  IF owners = {} THEN Panic
        ELSE Family_convert(families[CHOOSE i \in owners : \A j \in owners : i <= j],
                            v, to_unit)

\* FAMILIES.iter().find(..).map(..).unwrap(): unwrap panics on None.
convert_in(families, v, to_unit) ==
    LET owners == {i \in DOMAIN families : can_convert(families[i], v.unit)}
    IN  IF owners = {} THEN Panic
        ELSE Family_convert(families[CHOOSE i \in owners : \A j \in owners : i <= j],
                            v, to_unit)

convert(v, to_unit) == convert_in(FamiliesInit, v, to_unit)

\* The HashMap from family id to its units, as a set of <<id, units>> pairs.
units_in(families) == {<<families[i].id, families[i].units>> : i \in DOMAIN families}

\* prelude.rs: Value::from_str.  The regular expression is
\*     ^\s*(-?\d+\.?\d*)\s*([^s]+)\s*$
\* A match is the tuple <<a, b, c, d, e, f, g>> of the positions where its
\* pieces end: \s* at a, -? at b, \d+ at c, \.? at d, \d* at e, \s* at f,
\* [^s]+ at g, and the last \s* at the end of the text.  Every quantifier
\* is greedy, and the regex crate returns the match a backtracking engine
\* finds first: the greatest tuple in lexicographic order.
is_space(c) == c \in {" ", "\t", "\n", "\r"}
is_digit(c) == c \in {"0", "1", "2", "3", "4", "5", "6", "7", "8", "9"}
\* The class [^s] letting every character through.
any_char(c) == TRUE
not_s(c) == c # "s"

\* The positions j >= i where a run of \s, \d or [^s] starting after i may end.
Spaces(s, i) == {j \in i..Len(s) : \A k \in (i + 1)..j : is_space(s[k])}
Digits(s, i) == {j \in i..Len(s) : \A k \in (i + 1)..j : is_digit(s[k])}
NotS(s, i) == {j \in i..Len(s) : \A k \in (i + 1)..j : not_s(s[k])}
Opt(s, i, ch) == {i} \cup (IF i < Len(s) /\ s[i + 1] = ch THEN {i + 1} ELSE {})

RE_matches(s) ==
    UNION {UNION {UNION {UNION {UNION {UNION {
        {<<a, b, c, d, e, f, g>> : g \in {h \in NotS(s, f) \ {f} : Len(s) \in Spaces(s, h)}}
        : f \in Spaces(s, e)}
        : e \in Digits(s, d)}
        : d \in Opt(s, c, ".")}
        : c \in Digits(s, b) \ {b}}
        : b \in Opt(s, a, "-")}
        : a \in Spaces(s, 0)}

RECURSIVE LexGreater(_, _, _)
LexGreater(m, n, i) ==
    IF i > Len(m) THEN FALSE
    ELSE IF m[i] # n[i] THEN m[i] > n[i]
    ELSE LexGreater(m, n, i + 1)

\* The capture groups of the first match: << >>, or <<cap[1], cap[2]>>.
RE_captures(s) ==
    LET ms == RE_matches(s)
    IN  IF ms = {} THEN <<>>
        ELSE LET m == CHOOSE x \in ms : \A y \in ms : ~LexGreater(y, x, 1)
             IN  <<SubSeq(s, m[1] + 1, m[5]), SubSeq(s, m[6] + 1, m[7])>>

DigitChars == <<"0", "1", "2", "3", "4", "5", "6", "7", "8", "9">>
digit_value(c) == (CHOOSE i \in DOMAIN DigitChars : DigitChars[i] = c) - 1

RECURSIVE digits_value(_)
digits_value(ds) ==
    IF ds = <<>> THEN 0
    ELSE 10 * digits_value(SubSeq(ds, 1, Len(ds) - 1)) + digit_value(ds[Len(ds)])

RECURSIVE Pow10(_)
Pow10(n) == IF n = 0 THEN 1 ELSE 10 * Pow10(n - 1)

\* str::parse::<f64> on a text of the shape -?\d+\.?\d* (it accepts "1.").
parse_f64(t) ==
    LET neg == t[1] = "-"
        body == IF neg THEN Tail(t) ELSE t
        dots == {i \in DOMAIN body : body[i] = "."}
        dot == IF dots = {} THEN Len(body) + 1 ELSE CHOOSE i \in dots : TRUE
        int == SubSeq(body, 1, dot - 1)
        frac == SubSeq(body, dot + 1, Len(body))
        mag == f64_add(F64(digits_value(int)), Norm(digits_value(frac), Pow10(Len(frac))))
    IN  IF neg THEN f64_neg(mag) ELSE mag

InvalidValue == <<"invalid value">>

from_str(s) ==
    LET cap == RE_captures(s)
    IN  IF cap # <<>>
        THEN Ok(Value_new(parse_f64(cap[1]), to_lowercase(cap[2])))
        ELSE Err(InvalidValue)

(***************************************************************************)
(* Inputs.                                                                  *)
(***************************************************************************)
Quantities == {F64(100), Dec(-123, 10)}

\* Every unit of the registry by its symbol, other spellings and cases of
\* some of them, and tokens that are no unit.
Tokens ==
    { <<"m">>, <<"c","m">>, <<"m","m">>, <<"k","m">>, <<"f","t">>, <<"i","n">>,
      <<"y","d">>, <<"m","i">>, <<"n","m","i">>,
      <<"k">>, <<"c">>, <<"f">>, <<"r">>,
      <<"M">>, <<"M","e","t","e","r">>, <<"M","I">>, <<"K">>, <<"C">>,
      <<"k","e","l","v","i","n","s">>,
      <<"m","i_dotless">>, <<"m"," ">>, <<"z","o","r","p">> }

ParseAlphabet == {"-", "0", "1", ".", " ", "m", "M", "s", "S"}
ParseInputs == UNION {[1..n -> ParseAlphabet] : n \in 0..MaxLen}

Threads == 1..NumThreads
NoCall == [op |-> "none", v |-> Value_new(F64(0), <<>>), to |-> <<>>]
Calls ==
    { [op |-> "units", v |-> Value_new(F64(0), <<>>), to |-> <<>>],
      [op |-> "convert", v |-> Value_new(F64(100), <<"c">>), to |-> <<"f">>],
      [op |-> "convert", v |-> Value_new(F64(100), <<"f","t">>), to |-> <<"m">>],
      [op |-> "convert", v |-> Value_new(F64(100), <<"z","o","r","p">>), to |-> <<"m">>] }

(***************************************************************************)
(* Conversions: a caller hands a Value to convert, and may hand the Value   *)
(* it gets back to convert again.                                           *)
(***************************************************************************)
ParseIdle == input = <<>> /\ parsed = <<>>
RegistryIdle ==
    /\ once = "INCOMPLETE" /\ FAMILIES = <<>> /\ builds = 0
    /\ tpc = [t \in Threads |-> "idle"]
    /\ tcall = [t \in Threads |-> NoCall]
    /\ tlocal = [t \in Threads |-> <<>>]
    /\ tview = [t \in Threads |-> <<>>]
    /\ tret = [t \in Threads |-> <<>>]
ConvIdle == chain = <<>> /\ targets = <<>> /\ result = <<>>

Init ==
    /\ chain \in {<<Value_new(q, u)>> : q \in Quantities, u \in Tokens}
    /\ targets = <<>>
    /\ result = <<>>
    /\ ParseIdle
    /\ RegistryIdle

Convert(to_unit) ==
    /\ Len(targets) < MaxHops
    /\ Len(chain) = Len(targets) + 1
    /\ LET r == convert(chain[Len(chain)], to_unit)
       IN  /\ result' = <<r>>
           /\ chain' = IF r.tag = "Ok" THEN Append(chain, r.value[1]) ELSE chain
    /\ targets' = Append(targets, to_unit)
    /\ UNCHANGED <<parseVars, regVars>>

Next == \E to_unit \in Tokens : Convert(to_unit)

Spec == Init /\ [][Next]_vars

(***************************************************************************)
(* Parsing: a caller hands a text to Value::from_str.                       *)
(***************************************************************************)
InitParse ==
    /\ input \in ParseInputs
    /\ parsed = <<>>
    /\ ConvIdle
    /\ RegistryIdle

Parse ==
    /\ parsed = <<>>
    /\ parsed' = <<from_str(input)>>
    /\ UNCHANGED <<input, convVars, regVars>>

NextParse == Parse

SpecParse == InitParse /\ [][NextParse]_vars

(***************************************************************************)
(* The registry: threads call convert and units; each call goes through     *)
(* the lazy FAMILIES cell, whose initializer runs under a Once.             *)
(***************************************************************************)
CallResult(families, c) ==
    IF c.op = "units" THEN units_in(families) ELSE convert_in(families, c.v, c.to)

InitRegistry ==
    /\ RegistryIdle
    /\ ConvIdle
    /\ ParseIdle

\* A thread enters convert or units.
Call(t, c) ==
    /\ tpc[t] = "idle"
    /\ tpc' = [tpc EXCEPT ![t] = "deref"]
    /\ tcall' = [tcall EXCEPT ![t] = c]
    /\ UNCHANGED <<once, FAMILIES, builds, tlocal, tview, tret, convVars, parseVars>>

\* First access: the thread that finds the Once incomplete runs the initializer.
OnceBegin(t) ==
    /\ tpc[t] = "deref"
    /\ once = "INCOMPLETE"
    /\ once' = "RUNNING"
    /\ builds' = builds + 1
    /\ tpc' = [tpc EXCEPT ![t] = "init"]
    /\ tlocal' = [tlocal EXCEPT ![t] = <<>>]
    /\ UNCHANGED <<FAMILIES, tcall, tview, tret, convVars, parseVars>>

\* vec![length::family(), temperature::family(),]: one family at a time.
InitPush(t) ==
    /\ tpc[t] = "init"
    /\ Len(tlocal[t]) < Len(FamiliesInit)
    /\ tlocal' = [tlocal EXCEPT ![t] = Append(@, FamiliesInit[Len(@) + 1])]
    /\ UNCHANGED <<once, FAMILIES, builds, tpc, tcall, tview, tret, convVars, parseVars>>

\* The finished Vec is stored into the cell.
InitStore(t) ==
    /\ tpc[t] = "init"
    /\ Len(tlocal[t]) = Len(FamiliesInit)
    /\ FAMILIES' = tlocal[t]
    /\ tpc' = [tpc EXCEPT ![t] = "stored"]
    /\ UNCHANGED <<once, builds, tcall, tlocal, tview, tret, convVars, parseVars>>

\* The Once is marked complete; the initializing thread goes on to read.
OnceEnd(t) ==
    /\ tpc[t] = "stored"
    /\ once' = "COMPLETE"
    /\ tpc' = [tpc EXCEPT ![t] = "read"]
    /\ UNCHANGED <<FAMILIES, builds, tcall, tlocal, tview, tret, convVars, parseVars>>

\* An access that does not wait for the Once to complete.
OncePass_no_wait(t) ==
    /\ tpc[t] = "deref"
    /\ once # "INCOMPLETE"
    /\ tpc' = [tpc EXCEPT ![t] = "read"]
    /\ UNCHANGED <<once, FAMILIES, builds, tcall, tlocal, tview, tret, convVars, parseVars>>

\* Any other access passes once the Once is complete, and blocks until then.
OncePass(t) ==
    /\ tpc[t] = "deref"
    /\ once = "COMPLETE"
    /\ tpc' = [tpc EXCEPT ![t] = "read"]
    /\ UNCHANGED <<once, FAMILIES, builds, tcall, tlocal, tview, tret, convVars, parseVars>>

\* FAMILIES.iter(): the call reads the registry through the cell.
Read(t) ==
    /\ tpc[t] = "read"
    /\ tview' = [tview EXCEPT ![t] = FAMILIES]
    /\ tpc' = [tpc EXCEPT ![t] = "call"]
    /\ UNCHANGED <<once, FAMILIES, builds, tcall, tlocal, tret, convVars, parseVars>>

\* The call computes its result from what it read, and returns.
Return(t) ==
    /\ tpc[t] = "call"
    /\ tret' = [tret EXCEPT ![t] = <<CallResult(tview[t], tcall[t])>>]
    /\ tpc' = [tpc EXCEPT ![t] = "done"]
    /\ UNCHANGED <<once, FAMILIES, builds, tcall, tlocal, tview, convVars, parseVars>>

NextRegistry ==
    \E t \in Threads :
        \/ \E c \in Calls : Call(t, c)
        \/ OnceBegin(t)
        \/ InitPush(t)
        \/ InitStore(t)
        \/ OnceEnd(t)
        \/ OncePass(t)
        \/ Read(t)
        \/ Return(t)

SpecRegistry == InitRegistry /\ [][NextRegistry]_vars

(***************************************************************************)
(* Properties of conversions (specification Spec).                          *)
(***************************************************************************)
\* Call k converted CallValue(k) to the token CallTarget(k) and returned
\* CallReturn(k).  LastCall holds the call the state has just made: every
\* call is the last one in the state that follows it.
ConvCalls == 1..Len(targets)
LastCall == {k \in ConvCalls : k = Len(targets)}
CallValue(k) == chain[k]
CallTarget(k) == targets[k]
CallReturn(k) == IF k < Len(targets) THEN Ok(chain[k + 1]) ELSE result[1]

RegistryFamilies == {FamiliesInit[i] : i \in DOMAIN FamiliesInit}
Resolves(unit) == \E fam \in RegistryFamilies : find_unit(fam, unit) # <<>>
BaseUnitOf(fam) == find_unit(fam, fam.base_unit)
IsAscii(s) == \A i \in DOMAIN s : s[i] # "i_dotless"

\* C1: a Value whose token resolves to unit S of family F, converted to a
\* different token that resolves to unit D of F, gives the quantity
\* ((q + S.difference) * S.ratio) * (1 / D.ratio) - D.difference, unrounded,
\* and carries the target token exactly as the caller wrote it.
C1_Formula ==
    \A k \in LastCall : \A fam \in RegistryFamilies :
        LET v == CallValue(k)
            t == CallTarget(k)
            S == find_unit(fam, v.unit)
            D == find_unit(fam, t)
        IN  (S # <<>> /\ D # <<>> /\ t # v.unit) =>
                CallReturn(k) =
                    Ok(Value_new(
                        f64_sub(f64_mul(f64_mul(f64_add(v.quantity, S[1].difference),
                                                S[1].ratio),
                                        f64_div(F64(1), D[1].ratio)),
                                D[1].difference),
                        t))

\* C1 witness: a conversion between two different units, the source with an
\* offset, whose target token is not written the way the registry stores it.
C1_Witness ==
    \E k \in LastCall : \E fam \in RegistryFamilies :
        LET S == find_unit(fam, CallValue(k).unit)
            D == find_unit(fam, CallTarget(k))
        IN  /\ S # <<>> /\ D # <<>> /\ S # D
            /\ S[1].difference # F64(0)
            /\ CallTarget(k) # to_lowercase(CallTarget(k))
            /\ CallReturn(k).tag = "Ok"

\* C2: a Value whose token matches no unit of any family makes convert return
\* the 'unknown unit' error naming that token, whatever the target; it does
\* not panic and returns no Value.
C2_Claim ==
    \A k \in LastCall :
        ~Resolves(CallValue(k).unit) =>
            CallReturn(k) = Err(UnknownUnit(CallValue(k).unit))

\* C3: when the source token resolves in family F and the different target
\* token matches no unit of F (also when it belongs to another family),
\* convert returns the 'failed to convert ... from <base unit> to <target>'
\* error, not 'unknown unit', and no Value.
C3_Formula ==
    \A k \in LastCall : \A fam \in RegistryFamilies :
        LET v == CallValue(k)
            t == CallTarget(k)
            r == CallReturn(k)
        IN  (find_unit(fam, v.unit) # <<>> /\ find_unit(fam, t) = <<>> /\ t # v.unit) =>
                /\ r.tag = "Err"
                /\ r.value = <<>>
                /\ r.err[1][1] = "failed to convert"
                /\ r.err[1][3] = fam.base_unit
                /\ r.err[1][4] = t

\* C3 witness: a temperature converted to a token of the Lengths family.
C3_Witness ==
    \E k \in LastCall :
        /\ find_unit(temperature_family, CallValue(k).unit) # <<>>
        /\ find_unit(length_family, CallTarget(k)) # <<>>
        /\ CallReturn(k).tag = "Err"

\* C4: converting a Value of unit U to the base unit of U's family and the
\* result back to U gives the original quantity.
C4_Formula ==
    \A k \in ConvCalls : \A fam \in RegistryFamilies :
        LET U == find_unit(fam, CallValue(k).unit)
        IN  (/\ k + 1 \in ConvCalls
             /\ U # <<>>
             /\ find_unit(fam, CallTarget(k)) = BaseUnitOf(fam)
             /\ find_unit(fam, CallTarget(k + 1)) = U) =>
                /\ CallReturn(k + 1).tag = "Ok"
                /\ CallReturn(k + 1).value[1].quantity = CallValue(k).quantity

\* C4 witness: a round trip from a unit with a ratio and an offset, of a
\* quantity the first conversion changes.
C4_Witness ==
    \E k \in ConvCalls : \E fam \in RegistryFamilies :
        LET U == find_unit(fam, CallValue(k).unit)
        IN  /\ k + 1 \in ConvCalls
            /\ U # <<>>
            /\ U[1].ratio # F64(1) /\ U[1].difference # F64(0)
            /\ find_unit(fam, CallTarget(k)) = BaseUnitOf(fam)
            /\ find_unit(fam, CallTarget(k + 1)) = U
            /\ CallValue(k + 1).quantity # CallValue(k).quantity
            /\ CallReturn(k + 1).tag = "Ok"

\* C5: when the source and the target token resolve to the same unit, convert
\* returns the original quantity: the input Value itself when the tokens are
\* the same string, and the same quantity when they differ in spelling or
\* case, whether or not the normalisation to the base unit is skipped.
C5_Formula ==
    \A k \in LastCall : \A fam \in RegistryFamilies :
        LET v == CallValue(k)
            t == CallTarget(k)
            r == CallReturn(k)
        IN  (find_unit(fam, v.unit) # <<>> /\ find_unit(fam, v.unit) = find_unit(fam, t)) =>
                /\ r.tag = "Ok"
                /\ r.value[1].quantity = v.quantity
                /\ (t = v.unit => r.value[1] = v)

\* C5 witness: a unit with an offset converted to itself under another
\* spelling, so that the general path runs.
C5_Witness ==
    \E k \in LastCall : \E fam \in RegistryFamilies :
        LET U == find_unit(fam, CallValue(k).unit)
        IN  /\ U # <<>> /\ U = find_unit(fam, CallTarget(k))
            /\ CallTarget(k) # CallValue(k).unit
            /\ U[1].difference # F64(0)
            /\ CallReturn(k).tag = "Ok"

\* The source token of the call a state has just made, and what resolution
\* gives for a token and its lower-cased and upper-cased forms.
StateTokens == {CallValue(k).unit : k \in LastCall}
SameResolution(t) ==
    \A fam \in RegistryFamilies :
        /\ find_unit(fam, t) = find_unit(fam, to_lowercase(t))
        /\ find_unit(fam, t) = find_unit(fam, to_uppercase(t))
\* The call gives the same result whichever case the source token is
\* written in.
SameConversion ==
    \A k \in LastCall :
        LET v == CallValue(k)
        IN  /\ CallReturn(k) = convert(Value_new(v.quantity, to_lowercase(v.unit)), CallTarget(k))
            /\ (IsAscii(v.unit) =>
                  CallReturn(k) = convert(Value_new(v.quantity, to_uppercase(v.unit)), CallTarget(k)))
StoredLowerCased(t) ==
    LET p == from_str(<<"1">> \o t)
    IN  p.tag = "Ok" => p.value[1].unit = to_lowercase(t)

\* C8 as stated: for every token t, looking up t, its lower-cased form and
\* its upper-cased form gives the same unit or nothing, in every family.
C8_Claim == \A t \in StateTokens : SameResolution(t)

\* C8 amended: parse stores the unit token lower-cased, and for every token t
\* of ASCII characters, looking up t, its lower-cased form and its
\* upper-cased form gives the same unit or nothing in every family, so that
\* a Value converts to the same result whichever case its token is in.
C8_Formula ==
    /\ \A t \in StateTokens : StoredLowerCased(t) /\ (IsAscii(t) => SameResolution(t))
    /\ SameConversion

\* C8 witness: a token with an upper-case letter resolved to a unit and was
\* converted.
C8_Witness ==
    \E k \in LastCall :
        /\ CallValue(k).unit # to_lowercase(CallValue(k).unit)
        /\ Resolves(CallValue(k).unit)
        /\ CallTarget(k) # CallValue(k).unit
        /\ CallReturn(k).tag = "Ok"

(***************************************************************************)
(* Properties of parsing (specification SpecParse).                         *)
(***************************************************************************)
Parsed == parsed # <<>>
Accepted == Parsed /\ parsed[1].tag = "Ok"
Rejected == Parsed /\ parsed[1] = Err(InvalidValue)
StoredUnit == parsed[1].value[1].unit

\* C6: the unit token of an accepted input holds no whitespace: whitespace
\* between the number and the unit, and after the unit, is not part of it.
C6_Claim == Accepted => \A i \in DOMAIN StoredUnit : ~is_space(StoredUnit[i])

\* C7 as stated: every input with the letter s is rejected with 'invalid
\* value', hence no Value that parse returns has an 's' in its unit token.
C7_Claim ==
    /\ (Parsed /\ Contains(input, "s")) => Rejected
    /\ Accepted => ~Contains(StoredUnit, "s")

\* C7 amended: every input that holds the lower-case letter s anywhere is
\* rejected with 'invalid value'; a Value that parse returns has an 's' in
\* its unit token only when the input held an upper-case 'S', which the
\* grammar lets through and the lower-casing turns into 's'.
C7_Formula ==
    /\ (Parsed /\ Contains(input, "s")) => Rejected
    /\ (Accepted /\ Contains(StoredUnit, "s")) =>
            (Contains(input, "S") /\ ~Contains(input, "s"))

\* C7 witness: an input that would be accepted but for the 's' in it.
C7_Witness ==
    /\ Rejected
    /\ Contains(input, "s")
    /\ from_str([i \in DOMAIN input |-> IF input[i] = "s" THEN "m" ELSE input[i]]).tag = "Ok"

\* The maximal numeric literal at the head of a text (after its leading
\* whitespace): optional sign, all consecutive digits, optional point and
\* all digits that follow.  << >> when the text has none, else <<first, last>>.
MaxOf(S) == CHOOSE x \in S : \A y \in S : y <= x
LeadingLiteral(s) ==
    LET a == MaxOf(Spaces(s, 0))
        b == MaxOf(Opt(s, a, "-"))
        c == MaxOf(Digits(s, b))
        d == MaxOf(Opt(s, c, "."))
        e == MaxOf(Digits(s, d))
    IN  IF c = b THEN <<>> ELSE <<a + 1, e>>

\* C10: the quantity of an accepted input is the value of its maximal leading
\* numeric literal, no digit of which goes to the unit token; an input that
\* is only a number is rejected with 'invalid value'.
C10_Claim ==
    Parsed =>
        LET lit == LeadingLiteral(input)
        IN  /\ Accepted =>
                /\ lit # <<>>
                /\ parsed[1].value[1].quantity = parse_f64(SubSeq(input, lit[1], lit[2]))
            /\ (lit # <<>> /\ \A i \in (lit[2] + 1)..Len(input) : is_space(input[i])) =>
                    Rejected

(***************************************************************************)
(* Properties of the registry (specification SpecRegistry).                 *)
(***************************************************************************)
\* What the registry holds once built, and what a call returns when it runs alone.
Alone(c) == CallResult(FamiliesInit, c)

C9_State ==
    /\ builds <= 1
    /\ once = "COMPLETE" => FAMILIES = FamiliesInit
    /\ \A t \in Threads :
        /\ tpc[t] \in {"call", "done"} => tview[t] = FamiliesInit
        /\ tpc[t] = "done" => tret[t] = <<Alone(tcall[t])>>

\* C9: under every interleaving of concurrent convert and units calls the
\* registry is built at most once, no call sees it partly built, nothing
\* changes it once it is built, and every call returns what it returns when
\* run alone.
C9_Formula ==
    /\ []C9_State
    /\ [][FAMILIES # <<>> => FAMILIES' = FAMILIES]_vars

\* C9 witness: every thread has returned from its call, the registry was
\* built, and both convert and units were among the calls.
C9_Witness ==
    /\ \A t \in Threads : tpc[t] = "done"
    /\ builds = 1
    /\ \E t, u \in Threads : tcall[t].op = "convert" /\ tcall[u].op = "units"

====
